---- MODULE Spec2Model ----
(***************************************************************************)
(* A model of two components of the library:                               *)
(*   - src/src/string/manacher.rs : the Manacher radius table, built step  *)
(*     by step, and the queries over the finished table;                   *)
(*   - src/src/binary_heap.rs : the binary max-heap with a comparator.     *)
(* Vectors are 0-indexed in the source; At(v, k) reads v[k].               *)
(***************************************************************************)
EXTENDS Integers, Sequences, FiniteSets, TLC

\* Longest input sequence, and the number of distinct elements of T.
MaxLen == 5
Sigma == 2
\* Largest heap, and the number of distinct heap elements.
MaxHeap == 5
MaxVal == 3

VARIABLES
  s,          \* the input slice of Manacher::new
  pc,         \* position in Manacher::new: "for", "while", "built"
  ans,        \* the radius table under construction, then Manacher.0
  center,     \* center of the rightmost-reaching window
  right,      \* right edge of the rightmost-reaching window
  i,          \* the for loop's index
  delta,      \* the while loop's offset
  cert,       \* history: offset the mirror window certifies for this i
  probes,     \* history: offsets handed to is_equal in this iteration
  steps,      \* history: number of executions of delta += 1 so far
  q,          \* the last query and what it returned
  iter,       \* the live ManacherIter: kind, i, len
  yielded,    \* history: the ranges the live iterator has returned
  data,       \* BinaryHeap.data
  comparator, \* BinaryHeap.comparator
  hpc,        \* "start" before a constructor ran, "ready" after
  last,       \* history: the last heap operation, its result, data before
  drain,      \* history: values popped since the last constructor or push
  held        \* history: data right after the last constructor or push

mvars == <<s, pc, ans, center, right, i, delta, cert, probes, steps, q, iter, yielded>>
hvars == <<data, comparator, hpc, last, drain, held>>
vars == <<mvars, hvars>>

At(v, k) == v[k + 1]
Min(a, b) == IF a <= b THEN a ELSE b

RECURSIVE SeqsUpTo(_, _)
SeqsUpTo(S, n) ==
  IF n = 0 THEN {<<>>}
  ELSE LET prev == SeqsUpTo(S, n - 1)
       IN prev \cup {Append(t, x) : t \in {u \in prev : Len(u) = n - 1}, x \in S}

Inputs == SeqsUpTo(1..Sigma, MaxLen)

(***************************************************************************)
(* manacher.rs: the transformed view                                       *)
(***************************************************************************)
ti_to_si(ti) == (ti - 1) \div 2
si_to_ti(si) == 2 * si + 1

t_len(str) == Len(str) * 2 + 1

\* ManacherValue: Sep, Char(x); "Abort" stands for the failed assert of get.
get(str, ti) ==
  IF ~(ti >= 0 /\ ti < t_len(str)) THEN <<"Abort", 0>>
  ELSE IF ti % 2 = 0 THEN <<"Sep", 0>>
  ELSE <<"Char", At(str, ti_to_si(ti))>>

is_equal(str, ti, tj) ==
  /\ get(str, ti)[1] # "Abort"
  /\ get(str, tj)[1] # "Abort"
  /\ get(str, ti) = get(str, tj)

(***************************************************************************)
(* manacher.rs: Manacher::new                                              *)
(***************************************************************************)
\* seed without the cut at the right boundary.
seed_uncut(table, c, r, k) ==
  IF k >= r THEN 1
  ELSE At(table, 2 * c - k)

\* The initial value of delta (lines 68-73).
seed(table, c, r, k) ==
  IF k >= r THEN 1
  ELSE LET i_mirror == 2 * c - k
       IN Min(At(table, i_mirror), r - k)

\* The offset up to which the window [2*center - right, right] certifies
\* symmetry around k, by the mirror property.
certified(table, c, r, k) ==
  IF k >= r THEN 0
  ELSE Min(At(table, 2 * c - k), r - k)

in_bounds(str, k, d) == k + d < t_len(str) /\ d <= k

while_cond(str, k, d) == in_bounds(str, k, d) /\ is_equal(str, k + d, k - d)

NoQuery == [op |-> "none", x |-> 0, y |-> 0, res |-> <<"none", 0, 0>>]
NoIter == [kind |-> "none", i |-> 0, len |-> 0]

NoOp == [op |-> "none", v |-> 0, ret |-> <<"none", 0>>, before |-> <<>>]

\* Manacher::new up to the for loop (lines 58-63), for any input; the heap
\* is not constructed.
Init ==
  /\ s \in Inputs
  /\ pc = "for"
  /\ ans = <<0>>
  /\ center = 0
  /\ right = 0
  /\ i = 1
  /\ delta = 0
  /\ cert = 0
  /\ probes = <<>>
  /\ steps = 0
  /\ q = NoQuery
  /\ iter = NoIter
  /\ yielded = <<>>
  /\ data = <<>>
  /\ comparator = "asc"
  /\ hpc = "start"
  /\ last = NoOp
  /\ drain = <<>>
  /\ held = <<>>

\* for i in 1..t_len: the head of an iteration, delta initialised.
Seed ==
  /\ pc = "for"
  /\ i < t_len(s)
  /\ delta' = seed(ans, center, right, i)
  /\ cert' = certified(ans, center, right, i)
  /\ probes' = <<>>
  /\ pc' = "while"
  /\ UNCHANGED <<s, ans, center, right, i, steps, q, iter, yielded, hvars>>

\* One evaluation of the while condition that holds, and the loop body.
Expand ==
  /\ pc = "while"
  /\ while_cond(s, i, delta)
  /\ delta' = delta + 1
  /\ probes' = Append(probes, delta)
  /\ steps' = steps + 1
  /\ UNCHANGED <<s, pc, ans, center, right, i, cert, q, iter, yielded, hvars>>

\* The evaluation of the while condition that fails, and lines 77-83.
Finish ==
  /\ pc = "while"
  /\ ~while_cond(s, i, delta)
  /\ probes' = IF in_bounds(s, i, delta) THEN Append(probes, delta) ELSE probes
  /\ LET radius == delta - 1
         new_right == i + radius
     IN /\ ans' = Append(ans, radius)
        /\ IF new_right > right
           THEN right' = new_right /\ center' = i
           ELSE UNCHANGED <<right, center>>
  /\ i' = i + 1
  /\ pc' = "for"
  /\ UNCHANGED <<s, delta, cert, steps, q, iter, yielded, hvars>>

\* The for loop is over: Manacher(ans) is returned.
Built ==
  /\ pc = "for"
  /\ ~(i < t_len(s))
  /\ pc' = "built"
  /\ UNCHANGED <<s, ans, center, right, i, delta, cert, probes, steps, q, iter, yielded, hvars>>

(***************************************************************************)
(* manacher.rs: the queries.  A result is a triple: <<"usize", v, 0>>,     *)
(* <<"range", start, end>>, <<"true", 0, 0>>, <<"false", 0, 0>>,           *)
(* <<"some", start, end>>, <<"none", 0, 0>>; <<"abort", 0, 0>> is a failed *)
(* assertion, unwrap or index check, and <<"overflow", 0, 0>> a usize      *)
(* subtraction below zero (a panic in a debug build, a wrap in release).   *)
(***************************************************************************)
Abort == <<"abort", 0, 0>>
Overflow == <<"overflow", 0, 0>>
Range(lo, hi) == <<"range", lo, hi>>

RECURSIVE MaxFrom(_, _, _)
MaxFrom(v, k, m) ==
  IF k > Len(v) THEN m
  ELSE MaxFrom(v, k + 1, IF v[k] >= m THEN v[k] ELSE m)

\* max_palindrome_len reading the last entry instead of the maximum.
max_palindrome_len_last(table) ==
  IF Len(table) = 0 THEN Abort
  ELSE <<"usize", table[Len(table)], 0>>

\* self.0.iter().max().unwrap()
max_palindrome_len(table) ==
  IF Len(table) = 0 THEN Abort
  ELSE <<"usize", MaxFrom(table, 2, table[1]), 0>>

odd_longest_at(table, si) ==
  IF ~(si_to_ti(si) < Len(table)) THEN Abort
  ELSE LET longest_len == At(table, si_to_ti(si))
           rad == longest_len \div 2
       IN IF rad > si THEN Overflow ELSE Range(si - rad, si + rad + 1)

\* even_longest_at with the range placed around si instead of next_si.
even_longest_at_si(table, si, next_si) ==
  IF si + 1 # next_si THEN Abort
  ELSE LET ti == si_to_ti(si) + 1
       IN IF ~(ti < Len(table)) THEN Abort
          ELSE LET rad == At(table, ti) \div 2
               IN IF rad > si THEN Overflow
                  ELSE Range(si - rad, si + rad)

even_longest_at(table, si, next_si) ==
  IF si + 1 # next_si THEN Abort
  ELSE LET ti == si_to_ti(si) + 1
       IN IF ~(ti < Len(table)) THEN Abort
          ELSE LET longest_len == At(table, ti)
                   rad == longest_len \div 2
               IN IF rad > next_si THEN Overflow
                  ELSE Range(next_si - rad, next_si + rad)

\* is_palindrome with > for >= in the final comparison.
is_palindrome_strict(table, sl, sr) ==
  IF sl >= sr THEN <<"true", 0, 0>>
  ELSE LET slen == sr - sl
           range == IF slen % 2 = 0
                    THEN even_longest_at(table, sl + slen \div 2 - 1, sl + slen \div 2)
                    ELSE odd_longest_at(table, sl + slen \div 2)
       IN IF range[1] # "range" THEN range
          ELSE IF range[3] - range[2] > slen THEN <<"true", 0, 0>>
          ELSE <<"false", 0, 0>>

is_palindrome(table, sl, sr) ==
  IF sl >= sr THEN <<"true", 0, 0>>
  ELSE LET slen == sr - sl
           range == IF slen % 2 = 0
                    THEN even_longest_at(table, sl + slen \div 2 - 1, sl + slen \div 2)
                    ELSE odd_longest_at(table, sl + slen \div 2)
       IN IF range[1] # "range" THEN range
          ELSE IF range[3] - range[2] >= slen THEN <<"true", 0, 0>>
          ELSE <<"false", 0, 0>>

\* The loop of naive_palindrome from d on.
RECURSIVE naive_loop(_, _, _, _)
naive_loop(str, l, r, d) ==
  IF 2 * d + 1 + l >= r THEN <<"true", 0, 0>>
  ELSE IF ~(r - 1 - d < Len(str)) THEN Abort
  ELSE IF At(str, l + d) # At(str, r - 1 - d) THEN <<"false", 0, 0>>
  ELSE naive_loop(str, l, r, d + 1)

naive_palindrome(str, l, r) == naive_loop(str, l, r, 0)

\* next without the parity test.
RECURSIVE next_from_noparity(_, _, _)
next_from_noparity(table, k, len) ==
  IF ~(k < Len(table)) THEN [i |-> k, item |-> <<"none", 0, 0>>]
  ELSE IF At(table, k) >= len
       THEN IF k + 1 - len < 1
            THEN [i |-> k + 1, item |-> Overflow]
            ELSE [i |-> k + 1,
                  item |-> <<"some", ti_to_si(k + 1 - len), ti_to_si(k + 1 - len) + len>>]
       ELSE next_from_noparity(table, k + 1, len)

\* next with rad > len for rad >= len.
RECURSIVE next_from_strict(_, _, _)
next_from_strict(table, k, len) ==
  IF ~(k < Len(table)) THEN [i |-> k, item |-> <<"none", 0, 0>>]
  ELSE IF At(table, k) > len /\ At(table, k) % 2 = len % 2
       THEN IF k + 1 - len < 1
            THEN [i |-> k + 1, item |-> Overflow]
            ELSE [i |-> k + 1,
                  item |-> <<"some", ti_to_si(k + 1 - len), ti_to_si(k + 1 - len) + len>>]
       ELSE next_from_strict(table, k + 1, len)

\* ManacherIter::next from cursor k: the new cursor and the item returned.
RECURSIVE next_from(_, _, _)
next_from(table, k, len) ==
  IF ~(k < Len(table)) THEN [i |-> k, item |-> <<"none", 0, 0>>]
  ELSE LET ti == k
           rad == At(table, k)
       IN IF rad >= len /\ rad % 2 = len % 2
          THEN IF ti + 1 - len < 1
               THEN [i |-> k + 1, item |-> Overflow]
               ELSE LET start_si == ti_to_si(ti + 1 - len)
                    IN [i |-> k + 1, item |-> <<"some", start_si, start_si + len>>]
          ELSE next_from(table, k + 1, len)

\* Arguments the callers pass: every index of the sequence, and two past it.
Args == 0..(Len(s) + 1)

MaxPalindromeLen ==
  /\ pc = "built"
  /\ q' = [op |-> "max_palindrome_len", x |-> 0, y |-> 0, res |-> max_palindrome_len(ans)]
  /\ UNCHANGED <<s, pc, ans, center, right, i, delta, cert, probes, steps, iter, yielded, hvars>>

OddLongestAt ==
  /\ pc = "built"
  /\ \E si \in Args :
       q' = [op |-> "odd_longest_at", x |-> si, y |-> 0, res |-> odd_longest_at(ans, si)]
  /\ UNCHANGED <<s, pc, ans, center, right, i, delta, cert, probes, steps, iter, yielded, hvars>>

EvenLongestAt ==
  /\ pc = "built"
  /\ \E si \in Args, next_si \in Args :
       q' = [op |-> "even_longest_at", x |-> si, y |-> next_si,
             res |-> even_longest_at(ans, si, next_si)]
  /\ UNCHANGED <<s, pc, ans, center, right, i, delta, cert, probes, steps, iter, yielded, hvars>>

IsPalindrome ==
  /\ pc = "built"
  /\ \E sl \in Args, sr \in Args :
       q' = [op |-> "is_palindrome", x |-> sl, y |-> sr, res |-> is_palindrome(ans, sl, sr)]
  /\ UNCHANGED <<s, pc, ans, center, right, i, delta, cert, probes, steps, iter, yielded, hvars>>

\* iter_of_len(len): a fresh iterator.
IterOfLen ==
  /\ pc = "built"
  /\ \E len \in Args :
       /\ iter' = [kind |-> "len", i |-> 0, len |-> len]
       /\ q' = [op |-> "iter_of_len", x |-> len, y |-> 0, res |-> <<"none", 0, 0>>]
  /\ yielded' = <<>>
  /\ UNCHANGED <<s, pc, ans, center, right, i, delta, cert, probes, steps, hvars>>

\* iter_of_max(): a fresh iterator of len max_palindrome_len().
IterOfMax ==
  /\ pc = "built"
  /\ LET m == max_palindrome_len(ans)
     IN IF m[1] # "usize"
        THEN /\ q' = [op |-> "iter_of_max", x |-> 0, y |-> 0, res |-> m]
             /\ UNCHANGED iter
        ELSE /\ iter' = [kind |-> "max", i |-> 0, len |-> m[2]]
             /\ q' = [op |-> "iter_of_max", x |-> m[2], y |-> 0, res |-> <<"none", 0, 0>>]
  /\ yielded' = <<>>
  /\ UNCHANGED <<s, pc, ans, center, right, i, delta, cert, probes, steps, hvars>>

\* One call of next() on the live iterator; q.y is the cursor before it.
IterNext ==
  /\ pc = "built"
  /\ iter.kind # "none"
  /\ LET r == next_from(ans, iter.i, iter.len)
     IN /\ iter' = [iter EXCEPT !.i = r.i]
        /\ q' = [op |-> "next", x |-> iter.len, y |-> iter.i, res |-> r.item]
        /\ yielded' = IF r.item[1] = "some"
                      THEN Append(yielded, <<r.item[2], r.item[3]>>)
                      ELSE yielded
  /\ UNCHANGED <<s, pc, ans, center, right, i, delta, cert, probes, steps, hvars>>

(***************************************************************************)
(* binary_heap.rs.  A comparator is one of three orderings of the elements:*)
(* "asc" is a.cmp(b), the default one; "desc" is b.cmp(a); "half" compares *)
(* a/2 with b/2, so that distinct elements can compare Equal.              *)
(***************************************************************************)
Comparators == {"asc", "desc", "half"}
HeapInputs == SeqsUpTo(1..MaxVal, MaxHeap)

ord(a, b) == IF a < b THEN "Less" ELSE IF a = b THEN "Equal" ELSE "Greater"

cmp(c, a, b) ==
  IF c = "asc" THEN ord(a, b)
  ELSE IF c = "desc" THEN ord(b, a)
  ELSE ord(a \div 2, b \div 2)

parent(k) == (k - 1) \div 2
left_child(k) == k * 2 + 1

contains_idx(d, k) == k < Len(d)

is_less(d, c, k, j) == cmp(c, At(d, k), At(d, j)) = "Less"

swap(d, k, j) == [d EXCEPT ![k + 1] = d[j + 1], ![j + 1] = d[k + 1]]

RECURSIVE sift_up(_, _, _)
sift_up(d, c, k) ==
  IF k = 0 THEN d
  ELSE LET parent_i == parent(k)
       IN IF is_less(d, c, parent_i, k)
          THEN sift_up(swap(d, parent_i, k), c, parent_i)
          ELSE d

\* sift_down that never looks at the right child.
RECURSIVE sift_down_left(_, _, _)
sift_down_left(d, c, k) ==
  LET lc_i == left_child(k)
  IN IF ~contains_idx(d, lc_i) THEN d
     ELSE IF ~is_less(d, c, k, lc_i) THEN d
     ELSE sift_down_left(swap(d, k, lc_i), c, lc_i)

RECURSIVE sift_down(_, _, _)
sift_down(d, c, k) ==
  LET lc_i == left_child(k)
  IN IF ~contains_idx(d, lc_i) THEN d
     ELSE LET max0 == IF is_less(d, c, k, lc_i) THEN lc_i ELSE k
              rc_i == lc_i + 1
              max_idx == IF contains_idx(d, rc_i) /\ is_less(d, c, max0, rc_i)
                         THEN rc_i ELSE max0
          IN IF max_idx = k THEN d
             ELSE sift_down(swap(d, k, max_idx), c, max_idx)

\* for i in (0..=k).rev() { sift_down(i) }
RECURSIVE build_from(_, _, _)
build_from(d, c, k) ==
  IF k < 0 THEN d ELSE build_from(sift_down(d, c, k), c, k - 1)

build_heap(d, c) ==
  IF Len(d) < 2 THEN d
  ELSE LET last_internal == (Len(d) - 2) \div 2
       IN build_from(d, c, last_internal)

push(d, c, v) == sift_up(Append(d, v), c, Len(d))

\* Vec::swap_remove(0) on a non-empty vector: the last element takes the
\* place of the first.
swap_remove_0(d) ==
  IF Len(d) = 1 THEN <<>>
  ELSE [k \in 1..(Len(d) - 1) |-> IF k = 1 THEN d[Len(d)] ELSE d[k]]

pop(d, c) ==
  IF Len(d) = 0 THEN [data |-> d, ret |-> <<"none", 0>>]
  ELSE [data |-> sift_down(swap_remove_0(d), c, 0), ret |-> <<"some", d[1]>>]

\* No heap yet; the Manacher state is idle.
HInit ==
  /\ s = <<>>
  /\ pc = "idle"
  /\ ans = <<0>>
  /\ center = 0
  /\ right = 0
  /\ i = 1
  /\ delta = 0
  /\ cert = 0
  /\ probes = <<>>
  /\ steps = 0
  /\ q = NoQuery
  /\ iter = NoIter
  /\ yielded = <<>>
  /\ data = <<>>
  /\ comparator = "asc"
  /\ hpc = "start"
  /\ last = NoOp
  /\ drain = <<>>
  /\ held = <<>>

\* BinaryHeap::new()
New ==
  /\ hpc = "start"
  /\ data' = <<>>
  /\ comparator' = "asc"
  /\ hpc' = "ready"
  /\ last' = [NoOp EXCEPT !.op = "new"]
  /\ drain' = <<>>
  /\ held' = data'
  /\ UNCHANGED mvars

\* BinaryHeap::with_comparator(comparator)
WithComparator ==
  /\ hpc = "start"
  /\ data' = <<>>
  /\ comparator' \in Comparators
  /\ hpc' = "ready"
  /\ last' = [NoOp EXCEPT !.op = "with_comparator"]
  /\ drain' = <<>>
  /\ held' = data'
  /\ UNCHANGED mvars

\* BinaryHeap::from(data)
From ==
  /\ hpc = "start"
  /\ \E v \in HeapInputs : data' = build_heap(v, "asc")
  /\ comparator' = "asc"
  /\ hpc' = "ready"
  /\ last' = [NoOp EXCEPT !.op = "from"]
  /\ drain' = <<>>
  /\ held' = data'
  /\ UNCHANGED mvars

\* BinaryHeap::from_with_comparator(data, comparator)
FromWithComparator ==
  /\ hpc = "start"
  /\ \E v \in HeapInputs, c \in Comparators :
       /\ data' = build_heap(v, c)
       /\ comparator' = c
  /\ hpc' = "ready"
  /\ last' = [NoOp EXCEPT !.op = "from_with_comparator"]
  /\ drain' = <<>>
  /\ held' = data'
  /\ UNCHANGED mvars

Push ==
  /\ hpc = "ready"
  /\ Len(data) < MaxHeap
  /\ \E v \in 1..MaxVal :
       /\ data' = push(data, comparator, v)
       /\ last' = [op |-> "push", v |-> v, ret |-> <<"none", 0>>, before |-> data]
  /\ drain' = <<>>
  /\ held' = data'
  /\ UNCHANGED <<comparator, hpc, mvars>>

Pop ==
  /\ hpc = "ready"
  /\ LET r == pop(data, comparator)
     IN /\ data' = r.data
        /\ last' = [op |-> "pop", v |-> 0, ret |-> r.ret, before |-> data]
        /\ drain' = IF r.ret[1] = "some" THEN Append(drain, r.ret[2]) ELSE drain
  /\ UNCHANGED <<comparator, hpc, held, mvars>>

HeapStep == New \/ WithComparator \/ From \/ FromWithComparator \/ Push \/ Pop

\* Construction, then the table's direct queries.
Next ==
  \/ Seed \/ Expand \/ Finish \/ Built
  \/ MaxPalindromeLen \/ OddLongestAt \/ EvenLongestAt \/ IsPalindrome

\* Construction, then iterators over the table.
IterStep ==
  \/ Seed \/ Expand \/ Finish \/ Built
  \/ IterOfLen \/ IterOfMax \/ IterNext

Spec == Init /\ [][Next]_vars

IterSpec == Init /\ [][IterStep]_vars

HeapSpec == HInit /\ [][HeapStep]_vars

(***************************************************************************)
(* Reference definitions used by the properties                            *)
(***************************************************************************)
\* The largest d whose transformed window [ti-d, ti+d] is in bounds and
\* mirror-symmetric under is_equal.
Symmetric(str, ti, d) ==
  /\ ti - d >= 0
  /\ ti + d < t_len(str)
  /\ \A k \in 1..d : is_equal(str, ti + k, ti - k)

BruteRadius(str, ti) ==
  CHOOSE d \in 0..t_len(str) :
    /\ Symmetric(str, ti, d)
    /\ \A e \in (d + 1)..t_len(str) : ~Symmetric(str, ti, e)

Reverse(v) == [k \in 1..Len(v) |-> v[Len(v) + 1 - k]]

\* The elements l .. r-1 (0-indexed) of str.
Sub(str, l, r) == SubSeq(str, l + 1, r)

IsPalSub(str, l, r) == Sub(str, l, r) = Reverse(Sub(str, l, r))

\* Length of the longest palindromic substring of str whose center is the
\* center of transformed index ti: element (ti-1)/2 for odd ti, the gap
\* before element ti/2 for even ti.
CenteredLen(str, ti) ==
  LET cands == {len \in 0..Len(str) :
                  /\ len % 2 = ti % 2
                  /\ ti - len >= 0
                  /\ (ti - len) \div 2 + len <= Len(str)
                  /\ IsPalSub(str, (ti - len) \div 2, (ti - len) \div 2 + len)}
  IN CHOOSE m \in cands : \A c \in cands : c <= m

\* C3: the finished table has 2n+1 entries, radius[0] = 0, every entry is
\* in [0, n], and each entry is the largest in-bounds mirror-symmetric
\* radius at its index, which is the length of the longest palindromic
\* substring with that center.
C3_RadiusTable ==
  pc = "built" =>
    /\ Len(ans) = 2 * Len(s) + 1
    /\ At(ans, 0) = 0
    /\ \A ti \in 0..(2 * Len(s)) :
         /\ At(ans, ti) \in 0..Len(s)
         /\ At(ans, ti) = BruteRadius(s, ti)
         /\ At(ans, ti) = CenteredLen(s, ti)

C3_Witness ==
  /\ pc = "built"
  /\ Len(s) >= 4
  /\ \E ti \in 1..(2 * Len(s)) : At(ans, ti) >= 3 /\ At(ans, ti) < Len(s)
  /\ \E ti \in 1..(2 * Len(s)) : ti % 2 = 1 /\ At(ans, ti) = 1

\* Length of the longest substring of str equal to its own reverse.
BruteLongest(str) ==
  LET lens == {r - l : <<l, r>> \in {p \in (0..Len(str)) \X (0..Len(str)) :
                                        p[1] <= p[2] /\ IsPalSub(str, p[1], p[2])}}
  IN CHOOSE m \in lens : \A c \in lens : c <= m

\* All ranges [l, l+len) within str whose substring is a palindrome, by
\* increasing l.
RECURSIVE PalRangesFrom(_, _, _)
PalRangesFrom(str, len, l) ==
  IF l + len > Len(str) THEN <<>>
  ELSE IF IsPalSub(str, l, l + len)
       THEN <<(<<l, l + len>>)>> \o PalRangesFrom(str, len, l + 1)
       ELSE PalRangesFrom(str, len, l + 1)

PalRanges(str, len) == PalRangesFrom(str, len, 0)

IsPrefix(a, b) == Len(a) <= Len(b) /\ SubSeq(b, 1, Len(a)) = a

\* C1: for 0 <= l <= r <= n is_palindrome(l, r) returns what the two-pointer
\* check naive_palindrome(s, l, r) returns, and for l >= r both return true.
C1_IsPalindromeMatchesNaive ==
  q.op = "is_palindrome" =>
    /\ (q.x <= q.y /\ q.y <= Len(s)) =>
         /\ q.res[1] \in {"true", "false"}
         /\ q.res = naive_palindrome(s, q.x, q.y)
         /\ (q.res[1] = "true") = IsPalSub(s, q.x, q.y)
    /\ q.x >= q.y =>
         /\ q.res[1] = "true"
         /\ naive_palindrome(s, q.x, q.y)[1] = "true"

C1_Witness ==
  /\ q.op = "is_palindrome"
  /\ q.x = 1
  /\ q.y = 5
  /\ q.res[1] = "true"
  /\ is_palindrome(ans, 0, 5)[1] = "false"

\* C2: max_palindrome_len() is the length of the longest substring equal to
\* its own reverse; for the empty sequence it is 0, and it never aborts.
C2_MaxLenIsBruteForce ==
  q.op = "max_palindrome_len" => q.res = <<"usize", BruteLongest(s), 0>>

C2_Witness ==
  /\ q.op = "max_palindrome_len"
  /\ Len(s) = 5
  /\ q.res = <<"usize", 3, 0>>
  /\ At(ans, 2 * Len(s)) = 0

\* C4: for n >= 1 and len >= 1 the iterator returns one range of length len
\* per transformed position whose radius is >= len with len's parity, which
\* is the list of all palindromic ranges [l, l+len) by increasing l, then
\* None; iter_of_max() is that for len = the longest palindrome's length.
C4_IterEnumeratesPalindromes ==
  (pc = "built" /\ iter.kind # "none" /\ Len(s) >= 1 /\ iter.len >= 1) =>
    /\ IsPrefix(yielded, PalRanges(s, iter.len))
    /\ Len(PalRanges(s, iter.len)) =
         Cardinality({k \in 0..(Len(ans) - 1) :
                        At(ans, k) >= iter.len /\ At(ans, k) % 2 = iter.len % 2})
    /\ q.op = "next" =>
         /\ q.res[1] \in {"some", "none"}
         /\ q.res[1] = "some" => <<q.res[2], q.res[3]>> = yielded[Len(yielded)]
         /\ q.res[1] = "none" => yielded = PalRanges(s, iter.len)
    /\ iter.kind = "max" => iter.len = BruteLongest(s)

C4_Witness ==
  /\ iter.kind = "max"
  /\ q.op = "next"
  /\ q.res[1] = "none"
  /\ Len(yielded) = 2
  /\ iter.len = 3

\* C5: odd_longest_at(si) for si < n is [si-rad, si+rad+1) with
\* rad = radius[2si+1]/2, and even_longest_at(si, si+1) for si+1 < n is
\* [si+1-rad, si+1+rad) with rad = radius[2si+2]/2; no subtraction goes
\* below zero, the range is within [0, n], a palindrome, and maximal.
MaximalPal(str, lo, hi) ==
  /\ 0 <= lo
  /\ hi <= Len(str)
  /\ IsPalSub(str, lo, hi)
  /\ (lo = 0 \/ hi = Len(str) \/ ~IsPalSub(str, lo - 1, hi + 1))

C5_LongestAtCenter ==
  /\ (q.op = "odd_longest_at" /\ q.x < Len(s)) =>
       LET rad == At(ans, 2 * q.x + 1) \div 2
       IN /\ q.res = Range(q.x - rad, q.x + rad + 1)
          /\ MaximalPal(s, q.res[2], q.res[3])
  /\ (q.op = "even_longest_at" /\ q.y = q.x + 1 /\ q.y < Len(s)) =>
       LET rad == At(ans, 2 * q.x + 2) \div 2
       IN /\ q.res = Range(q.y - rad, q.y + rad)
          /\ MaximalPal(s, q.res[2], q.res[3])

C5_Witness ==
  /\ q.op = "even_longest_at"
  /\ q.res[1] = "range"
  /\ q.res[2] = 1
  /\ q.res[3] = 5

\* C6 as the specification states it: on the empty input iter_of_max() yields nothing, its
\* first next() returns None.
C6_EmptyYieldsNothing ==
  (Len(s) = 0 /\ iter.kind = "max") =>
    /\ yielded = <<>>
    /\ (q.op = "next" /\ q.y = 0) => q.res[1] = "none"

\* C6 amended: on the empty input iter_of_max() has len 0; its first next()
\* returns the empty range 0..0, and every later next() returns None.
C6_EmptyYieldsOneEmptyRange ==
  (Len(s) = 0 /\ iter.kind = "max") =>
    /\ iter.len = 0
    /\ q.op = "next" =>
         /\ yielded = <<(<<0, 0>>)>>
         /\ q.y = 0 => q.res = <<"some", 0, 0>>
         /\ q.y > 0 => q.res = <<"none", 0, 0>>

C6_Witness ==
  /\ Len(s) = 0
  /\ iter.kind = "max"
  /\ q.op = "next"
  /\ q.y = 1

\* C7: even_longest_at(si, next_si) aborts whenever next_si >= n, and
\* returns a range only when next_si = si+1 < n.
C7_EvenAbortsPastEnd ==
  q.op = "even_longest_at" =>
    /\ q.y >= Len(s) => q.res = Abort
    /\ q.res[1] = "range" => (q.y = q.x + 1 /\ q.y < Len(s))

\* The number of occurrences of v in d.
Count(d, v) == Cardinality({k \in 1..Len(d) : d[k] = v})

\* C8: pop returns None exactly when the heap is empty; otherwise it returns
\* a held element that no held element exceeds under the comparator and
\* removes exactly that one occurrence; so the values popped since the last
\* constructor or push never increase and, once pop returns None, are all
\* the elements that were held.
C8_PopReturnsMaximum ==
  /\ last.op = "pop" =>
       /\ (last.ret[1] = "none") = (Len(last.before) = 0)
       /\ last.ret[1] = "none" => data = <<>>
       /\ last.ret[1] = "some" =>
            /\ \E k \in 1..Len(last.before) : last.before[k] = last.ret[2]
            /\ \A k \in 1..Len(last.before) :
                 cmp(comparator, last.ret[2], last.before[k]) # "Less"
            /\ Len(data) = Len(last.before) - 1
            /\ \A v \in 1..MaxVal :
                 Count(data, v) = Count(last.before, v) - (IF v = last.ret[2] THEN 1 ELSE 0)
  /\ \A k \in 1..(Len(drain) - 1) : cmp(comparator, drain[k], drain[k + 1]) # "Less"
  /\ \A v \in 1..MaxVal : Count(drain, v) + Count(data, v) = Count(held, v)

C8_Witness ==
  /\ last.op = "pop"
  /\ last.ret[1] = "none"
  /\ Len(drain) = 4
  /\ comparator = "half"
  /\ drain[1] # drain[2]
  /\ drain[1] < drain[4]

\* C9: the first pair compared in an iteration is at offset 1 when
\* i >= right and at offset min(radius[mirror], right - i) + 1 otherwise,
\* and no offset the mirror window certifies is compared again.
C9_SeedSkipsCertified ==
  /\ (probes # <<>> => Head(probes) = cert + 1)
  /\ \A k \in 1..Len(probes) : probes[k] > cert

\* C10: right never decreases and never exceeds 2n, and at every loop
\* boundary the number of successful expansion steps so far is at most
\* right.
C10_RightBoundsWork ==
  [][/\ right' >= right
     /\ right' <= 2 * Len(s)
     /\ (pc' \in {"for", "built"} => steps' <= right')]_vars
====
